---- MODULE Spec2Model ----
(***************************************************************************)
(* reposort: the URL normaliser (parse_git_url), the path allocator        *)
(* (get_unique_target_path) and the sort / clone commands that use them.   *)
(* Strings and paths are sequences of one-character strings.               *)
(***************************************************************************)
EXTENDS Integers, Sequences, FiniteSets, TLC

(* ------------------------------ bounds --------------------------------- *)
\* number of tokens after the scheme prefix of a generated URL
MaxTok == 5
\* number of "-copyN" siblings that may pre-exist for a desired path
MaxCopies == 3
\* number of repositories found under the source directory
MaxRepos == 2

(* --------------------------- string helpers ---------------------------- *)
UpperLetters == <<"A","B","C","D","E","F","G","H","I","J","K","L","M",
                  "N","O","P","Q","R","S","T","U","V","W","X","Y","Z">>
LowerLetters == <<"a","b","c","d","e","f","g","h","i","j","k","l","m",
                  "n","o","p","q","r","s","t","u","v","w","x","y","z">>
DigitChars == <<"0","1","2","3","4","5","6","7","8","9">>

Range(s) == {s[k] : k \in 1..Len(s)}

\* str.startswith
StartsWith(s, p) == Len(s) >= Len(p) /\ SubSeq(s, 1, Len(p)) = p

\* str.endswith
EndsWith(s, p) == Len(s) >= Len(p) /\ SubSeq(s, Len(s) - Len(p) + 1, Len(s)) = p

\* s[n:]
Drop(s, n) == SubSeq(s, n + 1, Len(s))

\* s[:-n]
DropLast(s, n) == SubSeq(s, 1, Len(s) - n)

\* c in s
Contains(s, c) == \E k \in 1..Len(s) : s[k] = c

\* 1-based s.find(c), 0 when absent
IndexOf(s, c) ==
    IF Contains(s, c) THEN CHOOSE k \in 1..Len(s) : s[k] = c /\ \A j \in 1..(k-1) : s[j] # c
    ELSE 0

\* 1-based s.rfind(c), 0 when absent
LastIndexOf(s, c) ==
    IF Contains(s, c) THEN CHOOSE k \in 1..Len(s) : s[k] = c /\ \A j \in (k+1)..Len(s) : s[j] # c
    ELSE 0

\* s.split(c, 1)[0] / s.split(c)[0] / s.partition(c)[0]
BeforeFirst(s, c) == IF Contains(s, c) THEN SubSeq(s, 1, IndexOf(s, c) - 1) ELSE s

\* s.split(c, 1)[1], for s containing c
AfterFirst(s, c) == Drop(s, IndexOf(s, c))

\* s.rpartition(c)[2]
AfterLast(s, c) == Drop(s, LastIndexOf(s, c))

RECURSIVE LStrip(_, _)
\* s.lstrip(c)
LStrip(s, c) == IF s # <<>> /\ Head(s) = c THEN LStrip(Tail(s), c) ELSE s

RECURSIVE RStrip(_, _)
\* s.rstrip(c)
RStrip(s, c) == IF s # <<>> /\ s[Len(s)] = c THEN RStrip(DropLast(s, 1), c) ELSE s

\* str.lower on one character
LowerChar(c) ==
    IF \E k \in 1..26 : UpperLetters[k] = c
    THEN LowerLetters[CHOOSE k \in 1..26 : UpperLetters[k] = c]
    ELSE c

\* str.lower
Lower(s) == [k \in 1..Len(s) |-> LowerChar(s[k])]

\* the regex class [\w\-]
IsWordOrDash(c) ==
    c \in Range(UpperLetters) \cup Range(LowerLetters) \cup Range(DigitChars) \cup {"_", "-"}

\* t occurs in s as a contiguous run of characters
IsInfix(t, s) == \E k \in 0..(Len(s) - Len(t)) : SubSeq(s, k + 1, k + Len(t)) = t

(* ----------------------------- literals -------------------------------- *)
SshPrefix == <<"s","s","h",":","/","/">>
HttpPrefix == <<"h","t","t","p",":","/","/">>
HttpsPrefix == <<"h","t","t","p","s",":","/","/">>
DotGit == <<".","g","i","t">>
CopySuffix == <<"-","c","o","p","y">>

(* --------------------------- parse_git_url ----------------------------- *)
None == [tag |-> "None"]
Some(h, p) == [tag |-> "Some", host |-> h, path |-> p]

\* path.endswith(".git") -> path[:-4]
StripDotGit(path) == IF EndsWith(path, DotGit) THEN DropLast(path, 4) ELSE path

\* urlparse(url).netloc for an http(s):// URL: the text between "//" and the next "/"
UrlNetloc(url) == BeforeFirst(Drop(url, IndexOf(url, "/") + 1), "/")

\* urlparse(url).path for an http(s):// URL: the text from the first "/" after the netloc
UrlPath(url) ==
    LET rest == Drop(url, IndexOf(url, "/") + 1)
    IN  IF Contains(rest, "/") THEN Drop(rest, IndexOf(rest, "/") - 1) ELSE <<>>

\* urlparse(url).hostname: after the last "@", before the first ":", lower-cased; <<>> for None
UrlHostname(url) == Lower(BeforeFirst(AfterLast(UrlNetloc(url), "@"), ":"))

RECURSIVE WordRunLen(_)
\* length of the leading run of [\w\-] characters
WordRunLen(s) == IF s # <<>> /\ IsWordOrDash(Head(s)) THEN 1 + WordRunLen(Tail(s)) ELSE 0

\* length of a leading (?:[\w\-]+@) match, 0 when the group cannot match
UserPrefixLen(s) ==
    LET n == WordRunLen(s)
    IN  IF n >= 1 /\ Len(s) > n /\ s[n + 1] = "@" THEN n + 1 ELSE 0

NoMatch == [tag |-> "NoMatch"]

\* HostPathMatch with a greedy second group, (.+), which swallows the ".git" suffix
HostPathMatchGreedy(s) ==
    LET k == IndexOf(s, ":")
        rest == Drop(s, k)
    IN  IF k <= 1 \/ rest = <<>> THEN NoMatch
        ELSE [tag |-> "Match", g1 |-> SubSeq(s, 1, k - 1), g2 |-> rest]

\* ([^:]+):(.+?)(?:\.git)?$ matched at the start of s
HostPathMatch(s) ==
    LET k == IndexOf(s, ":")
        rest == Drop(s, k)
    IN  IF k <= 1 \/ rest = <<>> THEN NoMatch
        ELSE [tag |-> "Match",
              g1 |-> SubSeq(s, 1, k - 1),
              g2 |-> IF Len(rest) > 4 /\ EndsWith(rest, DotGit) THEN DropLast(rest, 4) ELSE rest]

\* re.match(r"^(?:[\w\-]+@)?([^:]+):(.+?)(?:\.git)?$", url)
ssh_match(url) ==
    LET n == UserPrefixLen(url)
        withUser == HostPathMatch(Drop(url, n))
    IN  IF n > 0 /\ withUser # NoMatch THEN withUser ELSE HostPathMatch(url)

\* the "SSH format" branch
ShorthandRule(url) ==
    LET m == ssh_match(url)
    IN  IF m # NoMatch THEN Some(m.g1, RStrip(LStrip(m.g2, "/"), "/")) ELSE None

\* the "HTTPS/HTTP format" branch
HttpRule(url) ==
    LET hostname == UrlHostname(url)
        host == IF hostname # <<>> THEN hostname ELSE UrlNetloc(url)
    IN  Some(host, RStrip(StripDotGit(LStrip(UrlPath(url), "/")), "/"))

\* the text left of an ssh:// URL after the prefix and anything up to the first "@"
SshRemainder(url) ==
    LET url_without_prefix == Drop(url, 6)
    IN  IF Contains(url_without_prefix, "@") THEN AfterFirst(url_without_prefix, "@")
        ELSE url_without_prefix

\* the "ssh:// format" branch, for a remainder that contains "/"
SshRule(url) ==
    LET r == SshRemainder(url)
        host_part == BeforeFirst(r, "/")
        path == AfterFirst(r, "/")
    IN  Some(BeforeFirst(host_part, ":"), RStrip(StripDotGit(path), "/"))

parse_git_url(url) ==
    IF url = <<>> THEN None
    ELSE IF StartsWith(url, SshPrefix) /\ Contains(SshRemainder(url), "/") THEN SshRule(url)
    ELSE IF StartsWith(url, HttpPrefix) \/ StartsWith(url, HttpsPrefix) THEN HttpRule(url)
    ELSE ShorthandRule(url)

(* ------------------------------- state --------------------------------- *)
VARIABLES
    url,          \* normaliser: the input string
    result,       \* normaliser: parse_git_url(url)
    url2,         \* normaliser: host + ":" + path + ".git" rebuilt from result
    result2,      \* normaliser: parse_git_url(url2)
    ppc,          \* normaliser: "start", "parsed", "reparsed"
    base_target,  \* allocator: the desired path
    counter,      \* allocator: the loop counter
    new_target,   \* allocator: the returned path
    probes,       \* allocator: number of exists() calls made so far
    apc,          \* allocator: "entry", "loop", "done"
    fs,           \* the set of paths that exist
    fs0,          \* the set of paths that existed when the command started
    cmd,          \* command line: "sort" or "clone"
    dry_run,      \* command line: --dry-run
    repos,        \* sort: origin URL of each repository found, in discovery order
    clone_url,    \* clone: the URL argument
    moves,        \* sort: the planned (source, target) pairs
    skipped,      \* sort: indices of the repositories left out of the plan
    idx,          \* sort: position in moves of the next move to execute
    final_target, \* clone: the allocated destination
    declined,     \* sort: the confirmation prompt was answered "no"
    pc            \* command position

normVars == <<url, result, url2, result2, ppc>>
allocVars == <<base_target, counter, new_target, probes, apc>>
cliVars == <<cmd, dry_run, repos, clone_url, moves, skipped, idx, final_target, declined, pc>>
vars == <<url, result, url2, result2, ppc, base_target, counter, new_target, probes, apc,
          fs, fs0, cmd, dry_run, repos, clone_url, moves, skipped, idx, final_target,
          declined, pc>>

NormIdle == url = <<>> /\ result = None /\ url2 = <<>> /\ result2 = None /\ ppc = "idle"
AllocIdle == base_target = <<>> /\ counter = 0 /\ new_target = <<>> /\ probes = 0 /\ apc = "idle"
CliIdle ==
    /\ cmd = "none" /\ dry_run = FALSE /\ repos = <<>> /\ clone_url = <<>> /\ moves = <<>>
    /\ skipped = {} /\ idx = 0 /\ final_target = <<>> /\ declined = FALSE /\ pc = "idle"

(* ------------------------- normaliser: inputs -------------------------- *)
Tokens == {<<"a">>, <<"B">>, <<"/">>, <<":">>, <<"@">>, DotGit}
Prefixes == {<<>>, SshPrefix, HttpPrefix, HttpsPrefix}

RECURSIVE TokSeqs(_)
\* every concatenation of at most n tokens
TokSeqs(n) ==
    IF n = 0 THEN {<<>>}
    ELSE LET prev == TokSeqs(n - 1) IN prev \cup {s \o t : s \in prev, t \in Tokens}

Urls == {p \o b : p \in Prefixes, b \in TokSeqs(MaxTok)}

InitNorm ==
    /\ url \in Urls
    /\ result = None /\ url2 = <<>> /\ result2 = None /\ ppc = "start"
    /\ AllocIdle /\ CliIdle /\ fs = {} /\ fs0 = {}

\* one call of parse_git_url
Normalize ==
    /\ ppc = "start"
    /\ result' = parse_git_url(url)
    /\ ppc' = "parsed"
    /\ UNCHANGED <<url, url2, result2, allocVars, cliVars, fs, fs0>>

\* rebuild host:path.git from an accepted result and normalise it again
Renormalize ==
    /\ ppc = "parsed"
    /\ result # None
    /\ url2' = result.host \o <<":">> \o result.path \o DotGit
    /\ result2' = parse_git_url(url2')
    /\ ppc' = "reparsed"
    /\ UNCHANGED <<url, result, allocVars, cliVars, fs, fs0>>

NextNorm == Normalize \/ Renormalize

SpecNorm == InitNorm /\ [][NextNorm]_vars

(* ------------------------- normaliser: claims -------------------------- *)
Parsed == ppc \in {"parsed", "reparsed"}
Accepted == Parsed /\ result # None

\* C3: whenever the normaliser returns a pair, the host is non-empty and has no "/", and
\* the path has no leading "/", no trailing "/" and does not end with ".git".
C3_ParsedLocationInvariants ==
    Accepted =>
        /\ result.host # <<>>
        /\ ~Contains(result.host, "/")
        /\ result.path # <<>> => Head(result.path) # "/" /\ result.path[Len(result.path)] # "/"
        /\ ~EndsWith(result.path, DotGit)

\* C4: an ssh:// input whose remainder, after the prefix and the user@ segment are removed,
\* has no "/" is rejected.
C4_SshWithoutPathFails ==
    Parsed /\ StartsWith(url, SshPrefix) /\ ~Contains(SshRemainder(url), "/") => result = None

\* an input that none of the scheme prefixes claims
SchemeLess(u) ==
    ~StartsWith(u, SshPrefix) /\ ~StartsWith(u, HttpPrefix) /\ ~StartsWith(u, HttpsPrefix)

\* C5 as stated: every accepted scheme-less input round-trips through host:path.git.
C5_RoundTripEveryAccepted ==
    ppc = "reparsed" /\ SchemeLess(url) => result2 = result

\* C5 amended: every scheme-less input accepted with a non-empty path and a host without "@"
\* round-trips: normalising host + ":" + path + ".git" gives the same (host, path).
C5_RoundTripWellFormed ==
    ppc = "reparsed" /\ SchemeLess(url) /\ result.path # <<>> /\ ~Contains(result.host, "@")
        => result2 = result

C5_Witness ==
    /\ ppc = "reparsed" /\ SchemeLess(url)
    /\ UserPrefixLen(url) > 0 /\ EndsWith(url, DotGit)
    /\ result.path # <<>> /\ ~Contains(result.host, "@")
    /\ url2 # url /\ result2 = result

\* C7: the host is returned exactly as it is written in the input, with no case change.
C7_HostAsWritten ==
    Accepted => IsInfix(result.host, url)

SshUsers == {<<>>, <<"a", "@">>, <<"B", "@">>}
SshHosts == {<<"a">>, <<"B">>}
SshPorts == {<<>>, <<":", "a">>}
PathChars == {<<"a">>, <<"B">>, <<"/">>, <<"@">>}

RECURSIVE PathSeqs(_)
PathSeqs(n) ==
    IF n = 0 THEN {<<>>}
    ELSE LET prev == PathSeqs(n - 1) IN prev \cup {s \o t : s \in prev, t \in PathChars}

\* non-empty paths that neither begin nor end with "/"
SshPaths == {p \in PathSeqs(3) : p # <<>> /\ Head(p) # "/" /\ p[Len(p)] # "/"}

\* C8: ssh://[user@]host[:port]/path[.git] normalises to (host, path).
C8_SshForm ==
    Parsed =>
        \A u \in SshUsers, h \in SshHosts, pt \in SshPorts, p \in SshPaths, g \in {<<>>, DotGit} :
            url = SshPrefix \o u \o h \o pt \o <<"/">> \o p \o g => result = Some(h, p)

(* ------------------------------- paths --------------------------------- *)
RootDir == <<"/">>
TargetDir == <<"/", "t">>
SourceDir == <<"/", "s">>

\* Path.parent of an absolute path
Parent(p) ==
    LET k == LastIndexOf(p, "/") IN IF k <= 1 THEN RootDir ELSE SubSeq(p, 1, k - 1)

RECURSIVE Ancestors(_)
\* Path.parents of an absolute path
Ancestors(p) == IF p = RootDir THEN {} ELSE {Parent(p)} \cup Ancestors(Parent(p))

\* a set of paths together with the directories that contain them
WithParents(S) == S \cup UNION {Ancestors(p) : p \in S}

\* Path.name
BaseName(p) == AfterLast(p, "/")

\* a / b for an absolute a: an absolute b replaces a, an empty b leaves a
PathJoin(a, b) ==
    IF b = <<>> THEN a
    ELSE IF Head(b) = "/" THEN b
    ELSE IF a = RootDir THEN a \o b
    ELSE a \o <<"/">> \o b

RECURSIVE IntToStr(_)
\* str(n) for n >= 0
IntToStr(n) == IF n < 10 THEN <<DigitChars[n + 1]>> ELSE IntToStr(n \div 10) \o <<DigitChars[(n % 10) + 1]>>

(* ---------------------- get_unique_target_path ------------------------- *)
\* Path(f"{base_target}-copy{counter}")
Candidate(base, n) == base \o CopySuffix \o IntToStr(n)

\* counter = 1
FirstCounter == 1

\* the counter left as it is
NextCounterStuck(c) == c

\* the counter advanced by two
NextCounterSkip(c) == c + 2

\* counter += 1
NextCounter(c) == c + 1

\* an existence test that always answers "no"
ExistsNever(p, E) == FALSE

\* Path.exists against the set E of existing paths
Exists(p, E) == p \in E

RECURSIVE ProbeFrom(_, _, _)
\* the while True loop, entered with counter = c
ProbeFrom(base, c, E) ==
    IF ~Exists(Candidate(base, c), E) THEN Candidate(base, c)
    ELSE ProbeFrom(base, NextCounter(c), E)

\* the whole call, against the set E of existing paths
get_unique_target_path(base, E) ==
    IF ~Exists(base, E) THEN base ELSE ProbeFrom(base, FirstCounter, E)

DesiredPaths == {TargetDir \o <<"/", "r">>, Candidate(TargetDir \o <<"/", "r">>, 1)}

\* the paths that may exist before the allocator is called
AllocUniverse ==
    DesiredPaths
      \cup {Candidate(b, n) : b \in DesiredPaths, n \in 1..MaxCopies}
      \cup {TargetDir \o <<"/", "r">> \o CopySuffix}

InitAlloc ==
    /\ base_target \in DesiredPaths
    /\ \E S \in SUBSET AllocUniverse : fs = WithParents(S)
    /\ fs0 = fs
    /\ counter = 0 /\ new_target = <<>> /\ probes = 0 /\ apc = "entry"
    /\ NormIdle /\ CliIdle

\* if not base_target.exists(): return base_target; counter = 1
AllocEntry ==
    /\ apc = "entry"
    /\ probes' = probes + 1
    /\ IF ~Exists(base_target, fs)
       THEN new_target' = base_target /\ apc' = "done" /\ UNCHANGED counter
       ELSE counter' = FirstCounter /\ apc' = "loop" /\ UNCHANGED new_target
    /\ UNCHANGED <<base_target, fs, fs0, normVars, cliVars>>

\* one iteration of the while True loop
AllocLoop ==
    /\ apc = "loop"
    /\ probes' = probes + 1
    /\ IF ~Exists(Candidate(base_target, counter), fs)
       THEN new_target' = Candidate(base_target, counter) /\ apc' = "done" /\ UNCHANGED counter
       ELSE counter' = NextCounter(counter) /\ UNCHANGED <<new_target, apc>>
    /\ UNCHANGED <<base_target, fs, fs0, normVars, cliVars>>

NextAlloc == AllocEntry \/ AllocLoop

SpecAlloc == InitAlloc /\ [][NextAlloc]_vars

(* -------------------------- allocator: claims -------------------------- *)
\* desired + "-copyN", written out for a one-digit N
CopyName(base, n) == base \o <<"-", "c", "o", "p", "y", DigitChars[n + 1]>>

\* C1: the allocator never returns a path that exists.
C1_NeverReturnsExisting ==
    apc = "done" => new_target \notin fs

C1_Witness ==
    /\ apc = "done" /\ fs = fs0
    /\ base_target \in fs /\ CopyName(base_target, 1) \in fs
    /\ new_target \notin fs /\ new_target # base_target

\* C2: the allocator returns the desired path when it does not exist, and otherwise
\* desired-copyN for the smallest N >= 1 such that desired-copyN does not exist.
C2_SmallestFreeCopy ==
    apc = "done" =>
        IF base_target \notin fs THEN new_target = base_target
        ELSE \E n \in 1..9 :
                /\ new_target = CopyName(base_target, n)
                /\ CopyName(base_target, n) \notin fs
                /\ \A k \in 1..(n - 1) : CopyName(base_target, k) \in fs

C2_Witness ==
    /\ apc = "done"
    /\ base_target \in fs /\ CopyName(base_target, 1) \in fs /\ CopyName(base_target, 2) \in fs
    /\ new_target = CopyName(base_target, 3)

\* the number of existing paths among desired, desired-copy1, desired-copy2, ...
CollisionCount ==
    Cardinality({p \in fs : p = base_target \/ \E n \in 1..9 : p = CopyName(base_target, n)})

\* C6: the probing loop ends after at most k+1 probes, k being the number of existing paths
\* among desired, desired-copy1, ...; until then a step is always possible, and the outcome
\* is a path.
C6_ProbesBounded ==
    apc \in {"entry", "loop", "done"} =>
        /\ probes <= CollisionCount + 1
        /\ apc # "done" => ENABLED NextAlloc
        /\ apc = "done" => new_target # <<>> /\ probes >= 1

C6_Witness ==
    /\ apc = "done" /\ CollisionCount >= 2 /\ probes = CollisionCount + 1

(* ------------------------ sort and clone commands ---------------------- *)
\* what get_git_origin_url gives for a repository: <<>> stands for "no origin"
NoOrigin == <<>>
OriginUrls ==
    { <<"a", ":", "B">> \o DotGit,
      HttpsPrefix \o <<"a", "/", "B">>,
      SshPrefix \o <<"a", "@", "a", "/", "B">> \o DotGit,
      <<"a", ":", "a">>,
      <<"@">>,
      NoOrigin }

\* the directory of the i-th repository found under the source directory
RepoPath(i) == SourceDir \o <<"/", "r">> \o IntToStr(i)

\* target / host / path
TargetPath(parsed) == PathJoin(PathJoin(TargetDir, parsed.host), parsed.path)

\* the paths that may exist under the target directory before the command runs
TargetUniverse ==
    LET aB == TargetDir \o <<"/", "a", "/", "B">>
    IN  {aB, TargetDir \o <<"/", "a", "/", "a">>} \cup {Candidate(aB, n) : n \in 1..MaxCopies}

RepoLists == UNION {[1..n -> OriginUrls] : n \in 0..MaxRepos}

InitCli ==
    /\ cmd \in {"sort", "clone"}
    /\ dry_run \in BOOLEAN
    /\ IF cmd = "sort" THEN repos \in RepoLists /\ clone_url = <<>>
       ELSE repos = <<>> /\ clone_url \in OriginUrls
    /\ \E S \in SUBSET TargetUniverse :
          fs = WithParents(S \cup {RepoPath(i) : i \in 1..Len(repos)} \cup {SourceDir, TargetDir})
    /\ fs0 = fs
    /\ moves = <<>> /\ skipped = {} /\ idx = 0 /\ final_target = <<>>
    /\ declined = FALSE /\ pc = "start"
    /\ NormIdle /\ AllocIdle

\* the repository is left out of the plan: no origin URL, or one that does not parse
IsSkipped(origin_url) == origin_url = NoOrigin \/ parse_git_url(origin_url) = None

RECURSIVE PlanFrom(_, _, _)
\* the planning loop from the i-th repository on, against the set E of existing paths
PlanFrom(rs, i, E) ==
    IF i > Len(rs) THEN <<>>
    ELSE IF IsSkipped(rs[i]) THEN PlanFrom(rs, i + 1, E)
    ELSE <<[src |-> RepoPath(i),
            dst |-> get_unique_target_path(TargetPath(parse_git_url(rs[i])), E),
            url |-> rs[i]]>> \o PlanFrom(rs, i + 1, E)

\* target_repo.parent.mkdir(parents=True, exist_ok=True)
MkdirParents(E, p) == E \cup {Parent(p)} \cup Ancestors(Parent(p))

\* the paths of E at or below p
Subtree(E, p) == {q \in E : q = p \/ StartsWith(q, p \o <<"/">>)}

\* os.rename(src, dst) of a directory with everything below it
Rename(E, src, dst) ==
    (E \ Subtree(E, src)) \cup {dst \o Drop(q, Len(src)) : q \in Subtree(E, src)}

\* shutil.move(src, dst): into dst when dst is an existing directory; an exception, which
\* the caller catches, when src is missing or the place inside dst is taken
ShutilMove(E, src, dst) ==
    LET real_dst == IF dst \in E THEN PathJoin(dst, BaseName(src)) ELSE dst
    IN  IF src \notin E \/ (dst \in E /\ real_dst \in E) THEN E
        ELSE Rename(E, src, real_dst)

\* sort: find the repositories and plan the moves
SortPlan ==
    /\ cmd = "sort" /\ pc = "start"
    /\ IF repos = <<>>
       THEN pc' = "done" /\ UNCHANGED <<moves, skipped>>
       ELSE /\ moves' = PlanFrom(repos, 1, fs)
            /\ skipped' = {i \in 1..Len(repos) : IsSkipped(repos[i])}
            /\ pc' = "planned"
    /\ UNCHANGED <<cmd, dry_run, repos, clone_url, idx, final_target, declined, fs, fs0,
                   normVars, allocVars>>

\* sort --dry-run: the plan is printed, then the moves are executed all the same
SortDryRunMoves ==
    /\ cmd = "sort" /\ pc = "planned" /\ dry_run
    /\ pc' = "moving" /\ idx' = 1
    /\ UNCHANGED <<cmd, dry_run, repos, clone_url, moves, skipped, final_target, declined,
                   fs, fs0, normVars, allocVars>>

\* sort --dry-run: the plan is printed and nothing else happens
SortDryRun ==
    /\ cmd = "sort" /\ pc = "planned" /\ dry_run
    /\ pc' = "done"
    /\ UNCHANGED <<cmd, dry_run, repos, clone_url, moves, skipped, idx, final_target, declined,
                   fs, fs0, normVars, allocVars>>

\* sort: the confirmation prompt is answered "no"
SortDecline ==
    /\ cmd = "sort" /\ pc = "planned" /\ ~dry_run
    /\ declined' = TRUE /\ pc' = "done"
    /\ UNCHANGED <<cmd, dry_run, repos, clone_url, moves, skipped, idx, final_target,
                   fs, fs0, normVars, allocVars>>

\* sort: the confirmation prompt is answered "yes"
SortConfirm ==
    /\ cmd = "sort" /\ pc = "planned" /\ ~dry_run
    /\ pc' = "moving" /\ idx' = 1
    /\ UNCHANGED <<cmd, dry_run, repos, clone_url, moves, skipped, final_target, declined,
                   fs, fs0, normVars, allocVars>>

\* sort: one iteration of the loop that executes the moves
SortMove ==
    /\ cmd = "sort" /\ pc = "moving" /\ idx <= Len(moves)
    /\ fs' = ShutilMove(MkdirParents(fs, moves[idx].dst), moves[idx].src, moves[idx].dst)
    /\ idx' = idx + 1
    /\ UNCHANGED <<cmd, dry_run, repos, clone_url, moves, skipped, final_target, declined, pc,
                   fs0, normVars, allocVars>>

\* sort: the loop is over
SortDone ==
    /\ cmd = "sort" /\ pc = "moving" /\ idx > Len(moves)
    /\ pc' = "done"
    /\ UNCHANGED <<cmd, dry_run, repos, clone_url, moves, skipped, idx, final_target, declined,
                   fs, fs0, normVars, allocVars>>

\* clone: parse the URL and allocate the destination, or abort on a URL that does not parse
ClonePlan ==
    /\ cmd = "clone" /\ pc = "start"
    /\ IF parse_git_url(clone_url) = None
       THEN pc' = "aborted" /\ UNCHANGED final_target
       ELSE /\ final_target' = get_unique_target_path(TargetPath(parse_git_url(clone_url)), fs)
            /\ pc' = "planned"
    /\ UNCHANGED <<cmd, dry_run, repos, clone_url, moves, skipped, idx, declined, fs, fs0,
                   normVars, allocVars>>

\* clone --dry-run: the plan is printed and nothing else happens
CloneDryRun ==
    /\ cmd = "clone" /\ pc = "planned" /\ dry_run
    /\ pc' = "done"
    /\ UNCHANGED <<cmd, dry_run, repos, clone_url, moves, skipped, idx, final_target, declined,
                   fs, fs0, normVars, allocVars>>

\* clone: create the parent directories and run git clone, which succeeds or fails
CloneExecute ==
    /\ cmd = "clone" /\ pc = "planned" /\ ~dry_run
    /\ \/ fs' = MkdirParents(fs, final_target) \cup {final_target} /\ pc' = "done"
       \/ fs' = MkdirParents(fs, final_target) /\ pc' = "aborted"
    /\ UNCHANGED <<cmd, dry_run, repos, clone_url, moves, skipped, idx, final_target, declined,
                   fs0, normVars, allocVars>>

NextCli ==
    \/ SortPlan \/ SortDryRun \/ SortDecline \/ SortConfirm \/ SortMove \/ SortDone
    \/ ClonePlan \/ CloneDryRun \/ CloneExecute

SpecCli == InitCli /\ [][NextCli]_vars

(* --------------------------- commands: claims -------------------------- *)
\* C9: in one run of sort no two repositories are assigned the same final target, and every
\* move that is executed goes to a path that does not exist at that moment.
C9_DistinctTargets ==
    cmd = "sort" /\ pc \in {"planned", "moving"} =>
        /\ \A i, j \in 1..Len(moves) : i # j => moves[i].dst # moves[j].dst
        /\ pc = "moving" /\ idx <= Len(moves) => moves[idx].dst \notin fs

\* C10: with --dry-run, and after the confirmation prompt of sort is declined, the set of
\* existing paths is the one the command started with.
C10_DryRunAndDeclineChangeNothing ==
    cmd \in {"sort", "clone"} /\ (dry_run \/ declined) => fs = fs0

C10_Witness ==
    /\ cmd = "sort" /\ pc = "done" /\ dry_run
    /\ Len(moves) >= 2
    /\ fs = fs0

====
